---- MODULE Spec2Model ----
(***************************************************************************)
(* State-machine model of the two iterations of the device-status service: *)
(*   "lock"  src/FUNCTIONAL 24.11 15:35/app.py  (lgpio / RPi.GPIO / dry-run *)
(*           drivers, in-memory state behind state_lock)                   *)
(*   "file"  src/app.py  (RPi.GPIO + pygame, messages.json on disk)        *)
(* One behaviour runs one of the two programs (variable `variant`).        *)
(*                                                                         *)
(* Units.  A duty cycle is kept as an integer number of 1/255 percent, so  *)
(* (value / 255.0) * 100.0 is value * 100 and 100 percent is 25500; the    *)
(* arithmetic is exact rational arithmetic, not IEEE rounding.  A mixer    *)
(* volume is kept as an integer number of hundredths (volume / 100).       *)
(* A text is a sequence of character codes.  The timestamp of a message is *)
(* an opaque token.                                                        *)
(***************************************************************************)
EXTENDS Integers, Sequences, FiniteSets, Bags, TLC

VARIABLES
    variant,        \* which app.py runs: "lock" or "file"
    main,           \* position of the main thread (module import, serving, exit)
    HAS_LGPIO,      \* lock variant: module global
    HAS_RPI_GPIO,   \* lock variant: module global
    chip,           \* lock variant: module global, "None" or "handle"
    GPIO,           \* module global: "None" or "module"
    _pwm,           \* lock: _pwm / file: pwm; "None" or "object"
    lgHandle,       \* hardware: the lgpio chip handle, "none" | "open" | "closed"
    pinMode,        \* hardware: LED pin, "unset" | "out"
    swPwm,          \* hardware: RPi.GPIO software PWM, "none" | "created" | "running" | "stopped"
    hwDuty,         \* hardware: duty the output is driven at
    passed,         \* {} or {d}: the duty argument of the latest driver call
    mixer,          \* file variant: the pygame mixer [init, busy, track, volume, passed]
    _state,         \* lock variant: the in-memory state dictionary
    state_lock,     \* lock variant: 0 when free, else the thread holding it
    file,           \* file variant: messages.json [kind, messages]
    req,            \* per worker thread: the request it serves and its locals
    cpc,            \* position inside the running cleanup call
    cleanupCalls,   \* number of cleanup calls that have returned or raised
    hist            \* history: facts about the run that the claims speak of

vars == <<variant, main, HAS_LGPIO, HAS_RPI_GPIO, chip, GPIO, _pwm, lgHandle,
          pinMode, swPwm, hwDuty, passed, mixer, _state, state_lock, file, req,
          cpc, cleanupCalls, hist>>

pyGlobals == <<HAS_LGPIO, HAS_RPI_GPIO, chip, GPIO, _pwm>>
hardware == <<lgHandle, pinMode, swPwm, hwDuty, passed>>
shutdownVars == <<cpc, cleanupCalls>>

(***************************************************************************)
(* Program constants                                                       *)
(***************************************************************************)
MAX_BRIGHTNESS == 255
MAX_VOLUME == 100
DEFAULT_VOLUME == 50
MAX_TEXT == 100
GET_LIMIT == 200
FULL_DUTY == 25500

(***************************************************************************)
(* Bounds of the model                                                     *)
(***************************************************************************)
NThreads == 1
NRacers == 2
NLive == 2
MaxCleanups == 2
MaxMsgs == 2
MaxLog == 201
NWriters == 2

Threads == 1..NThreads

\* request values offered to set_brightness / set_volume
IntInputs == {-10, 128, 9999}
\* the tracks a request may name; only song.mp3 exists under BASE_DIR
TrackInputs == {"", "song.mp3", "missing.mp3"}
ExistingTracks == {"song.mp3"}

Min(a, b) == IF a < b THEN a ELSE b
Max(a, b) == IF a > b THEN a ELSE b

(***************************************************************************)
(* A worker thread between requests.  code = 0: no response sent yet.      *)
(***************************************************************************)
IdleReq ==
    [op |-> "none", pc |-> "idle", present |-> FALSE, raw |-> 0, value |-> 0,
     duty |-> 0, track |-> "", text |-> <<>>, messages |-> <<>>, code |-> 0,
     hwfail |-> FALSE, before |-> <<>>, body |-> <<>>]

NoHist == [cleanupFault |-> FALSE, cleanupRaised |-> FALSE,
           overlap |-> FALSE, writeFault |-> FALSE, accepted |-> <<>>,
           leaked |-> FALSE, attempted |-> {}]

InitState == [brightness |-> 0, volume |-> DEFAULT_VOLUME, track |-> "None",
              messages |-> <<>>]

NoMixer == [init |-> FALSE, busy |-> FALSE, track |-> "None",
            volume |-> 100, passed |-> {}]

(***************************************************************************)
(* Process start: nothing imported, nothing acquired.                      *)
(***************************************************************************)
InitBoot ==
    /\ variant \in {"lock", "file"}
    /\ main = IF variant = "lock" THEN "import_lgpio" ELSE "import_libs"
    /\ HAS_LGPIO = FALSE
    /\ HAS_RPI_GPIO = FALSE
    /\ chip = "None"
    /\ GPIO = "None"
    /\ _pwm = "None"
    /\ lgHandle = "none"
    /\ pinMode = "unset"
    /\ swPwm = "none"
    /\ hwDuty = 0
    /\ passed = {}
    /\ mixer = NoMixer
    /\ _state = InitState
    /\ state_lock = 0
    /\ file = [kind |-> "json", messages |-> <<>>]
    /\ req = [t \in Threads |-> IdleReq]
    /\ cpc = "idle"
    /\ cleanupCalls = 0
    /\ hist = NoHist

(***************************************************************************)
(* Lock variant, module import: driver probing.  Each probe's outcome `ok` *)
(* (the library call returns or raises) is the environment's choice.       *)
(***************************************************************************)
\* try: import lgpio; HAS_LGPIO = True / except: lgpio = None
ImportLgpio(ok) ==
    /\ variant = "lock" /\ main = "import_lgpio"
    /\ HAS_LGPIO' = ok
    \* `if HAS_LGPIO:` ... `if not HAS_LGPIO:`
    /\ main' = IF ok THEN "gpiochip_open" ELSE "import_rpi"
    /\ UNCHANGED <<variant, HAS_RPI_GPIO, chip, GPIO, _pwm, hardware, mixer,
                   _state, state_lock, file, req, shutdownVars, hist>>

\* chip = lgpio.gpiochip_open(0); on an exception HAS_LGPIO = False, chip = None
GpiochipOpen(ok) ==
    /\ variant = "lock" /\ main = "gpiochip_open"
    /\ IF ok
       THEN /\ chip' = "handle"
            /\ lgHandle' = "open"
            /\ main' = "tx_pwm_init"
            /\ UNCHANGED <<HAS_LGPIO, hist>>
       ELSE /\ HAS_LGPIO' = FALSE
            /\ chip' = "None"
            /\ main' = "import_rpi"
            /\ UNCHANGED <<lgHandle, hist>>
    /\ UNCHANGED <<variant, HAS_RPI_GPIO, GPIO, _pwm, pinMode, swPwm, hwDuty,
                   passed, mixer, _state, state_lock, file, req, shutdownVars>>

\* lgpio.tx_pwm(chip, LED_PIN, PWM_FREQ, 0); the except branch sets
\* HAS_LGPIO = False and chip = None and does not call gpiochip_close.
TxPwmInit(ok) ==
    /\ variant = "lock" /\ main = "tx_pwm_init"
    /\ IF ok
       THEN /\ hwDuty' = 0
            /\ passed' = {0}
            \* `if not HAS_LGPIO:` is skipped
            /\ main' = "serving"
            /\ UNCHANGED <<HAS_LGPIO, chip, hist>>
       ELSE /\ HAS_LGPIO' = FALSE
            /\ chip' = "None"
            /\ main' = "import_rpi"
            /\ passed' = {0}
            /\ hist' = [hist EXCEPT !.leaked = (lgHandle = "open")]
            /\ UNCHANGED hwDuty
    /\ UNCHANGED <<variant, HAS_RPI_GPIO, GPIO, _pwm, lgHandle, pinMode, swPwm,
                   mixer, _state, state_lock, file, req, shutdownVars>>

\* the except branch of the RPi.GPIO fallback: GPIO = None, _pwm = None
RpiFallbackFailed ==
    /\ GPIO' = "None"
    /\ _pwm' = "None"
    /\ main' = "serving"
    /\ UNCHANGED HAS_RPI_GPIO

\* import RPi.GPIO as GPIO
ImportRpi(ok) ==
    /\ variant = "lock" /\ main = "import_rpi"
    /\ IF ok
       THEN GPIO' = "module" /\ main' = "gpio_setup" /\ UNCHANGED <<_pwm, HAS_RPI_GPIO>>
       ELSE RpiFallbackFailed
    /\ UNCHANGED <<variant, HAS_LGPIO, chip, hardware, mixer, _state,
                   state_lock, file, req, shutdownVars, hist>>

\* GPIO.setmode(GPIO.BCM); GPIO.setup(LED_PIN, GPIO.OUT)
GpioSetup(ok) ==
    /\ variant = "lock" /\ main = "gpio_setup"
    /\ IF ok
       THEN pinMode' = "out" /\ main' = "pwm_start" /\ UNCHANGED <<GPIO, _pwm, HAS_RPI_GPIO>>
       ELSE RpiFallbackFailed /\ UNCHANGED pinMode
    /\ UNCHANGED <<variant, HAS_LGPIO, chip, lgHandle, swPwm, hwDuty, passed,
                   mixer, _state, state_lock, file, req, shutdownVars, hist>>

\* _pwm = GPIO.PWM(LED_PIN, PWM_FREQ); _pwm.start(0); HAS_RPI_GPIO = True
PwmStart(ok) ==
    /\ variant = "lock" /\ main = "pwm_start"
    /\ IF ok
       THEN /\ _pwm' = "object"
            /\ swPwm' = "running"
            /\ hwDuty' = 0
            /\ passed' = {0}
            /\ HAS_RPI_GPIO' = TRUE
            /\ main' = "serving"
            /\ UNCHANGED GPIO
       ELSE /\ RpiFallbackFailed
            \* the PWM object may have been created before start(0) raised
            /\ swPwm' \in {"none", "created"}
            /\ UNCHANGED <<hwDuty, passed>>
    /\ UNCHANGED <<variant, HAS_LGPIO, chip, lgHandle, pinMode, mixer, _state,
                   state_lock, file, req, shutdownVars, hist>>

(***************************************************************************)
(* File variant, module import: no probing, no except clause.  A library   *)
(* call that raises ends the import and with it the process.               *)
(***************************************************************************)
\* import RPi.GPIO as GPIO; import pygame
FileImportLibs(ok) ==
    /\ variant = "file" /\ main = "import_libs"
    /\ GPIO' = IF ok THEN "module" ELSE "None"
    /\ main' = IF ok THEN "gpio_setup" ELSE "crashed"
    /\ UNCHANGED <<variant, HAS_LGPIO, HAS_RPI_GPIO, chip, _pwm, hardware, mixer,
                   _state, state_lock, file, req, shutdownVars, hist>>

\* GPIO.setmode(GPIO.BCM); GPIO.setup(LED_PIN, GPIO.OUT)
FileGpioSetup(ok) ==
    /\ variant = "file" /\ main = "gpio_setup"
    /\ pinMode' = IF ok THEN "out" ELSE pinMode
    /\ main' = IF ok THEN "pwm_start" ELSE "crashed"
    /\ UNCHANGED <<variant, pyGlobals, lgHandle, swPwm, hwDuty, passed, mixer,
                   _state, state_lock, file, req, shutdownVars, hist>>

\* pwm = GPIO.PWM(LED_PIN, 1000); pwm.start(0)
FilePwmStart(ok) ==
    /\ variant = "file" /\ main = "pwm_start"
    /\ IF ok
       THEN /\ _pwm' = "object"
            /\ swPwm' = "running"
            /\ hwDuty' = 0
            /\ passed' = {0}
            /\ main' = "mixer_init"
       ELSE /\ swPwm' \in {"none", "created"}
            /\ main' = "crashed"
            /\ UNCHANGED <<_pwm, hwDuty, passed>>
    /\ UNCHANGED <<variant, HAS_LGPIO, HAS_RPI_GPIO, chip, GPIO, lgHandle,
                   pinMode, mixer, _state, state_lock, file, req, shutdownVars, hist>>

\* pygame.mixer.init()
FileMixerInit(ok) ==
    /\ variant = "file" /\ main = "mixer_init"
    /\ mixer' = [mixer EXCEPT !.init = ok]
    /\ main' = IF ok THEN "serving" ELSE "crashed"
    /\ UNCHANGED <<variant, pyGlobals, hardware, _state, state_lock, file, req,
                   shutdownVars, hist>>

Startup ==
    \E ok \in BOOLEAN :
        \/ ImportLgpio(ok)
        \/ GpiochipOpen(ok)
        \/ TxPwmInit(ok)
        \/ ImportRpi(ok)
        \/ GpioSetup(ok)
        \/ PwmStart(ok)
        \/ FileImportLibs(ok)
        \/ FileGpioSetup(ok)
        \/ FilePwmStart(ok)
        \/ FileMixerInit(ok)

(***************************************************************************)
(* Hardware drivers                                                        *)
(***************************************************************************)
ActiveDriver ==
    IF HAS_LGPIO /\ chip # "None" THEN "primary"
    ELSE IF HAS_RPI_GPIO /\ _pwm # "None" THEN "fallback"
    ELSE "dry-run"

\* percent = max(0.0, min(100.0, float(percent)))
ClampPercent(d) == Max(0, Min(FULL_DUTY, d))

\* int(percent) of a non-negative percent, back in duty units
IntPercent(d) == (d \div 255) * 255

\* whether the driver call made by set_pwm_duty_percent raises: the library
\* fails (ok = FALSE), or lgpio is handed a handle that is no longer open
ApplyRaises(ok) ==
    CASE ActiveDriver = "primary" -> ~ok \/ lgHandle # "open"
      [] ActiveDriver = "fallback" -> ~ok
      [] OTHER -> FALSE

\* set_pwm_duty_percent(percent): both driver calls sit in try/except, so the
\* function always returns; a call that raises leaves the output as it was.
set_pwm_duty_percent(d, ok) ==
    LET percent == ClampPercent(d) IN
    CASE ActiveDriver = "primary" ->
            /\ passed' = {IntPercent(percent)}
            /\ hwDuty' = IF ApplyRaises(ok) THEN hwDuty ELSE IntPercent(percent)
            /\ UNCHANGED <<lgHandle, pinMode, swPwm>>
      [] ActiveDriver = "fallback" ->
            /\ passed' = {percent}
            \* a PWM object that is not running takes the value and drives nothing
            /\ hwDuty' = IF ApplyRaises(ok) \/ swPwm # "running" THEN hwDuty ELSE percent
            /\ UNCHANGED <<lgHandle, pinMode, swPwm>>
      [] OTHER -> UNCHANGED hardware

\* a request step taken after cleanup has begun overlaps the shutdown
NoteOverlap == [hist EXCEPT !.overlap = (@ \/ main = "exit")]

(***************************************************************************)
(* Lock variant: set_brightness, set_volume, set_track                     *)
(***************************************************************************)
\* value = max(0, min(255, int(raw)))
ClampBrightness(raw) == Max(0, Min(MAX_BRIGHTNESS, raw))

\* duty_percent = (value / 255.0) * 100.0
DutyPercent(value) == value * 100

\* value = max(0, min(100, int(raw)))
ClampVolume(raw) == Max(0, Min(MAX_VOLUME, raw))

\* data.get("value") is None -> 400; else clamp and scale
SetBrightnessStart(t, present, raw) ==
    /\ variant = "lock" /\ main = "serving" /\ req[t].pc = "idle"
    /\ req' = [req EXCEPT ![t] =
                 IF ~present
                 THEN [IdleReq EXCEPT !.op = "set_brightness", !.code = 400]
                 ELSE [IdleReq EXCEPT !.op = "set_brightness", !.pc = "apply_pwm",
                                      !.present = TRUE, !.raw = raw,
                                      !.value = ClampBrightness(raw),
                                      !.duty = DutyPercent(ClampBrightness(raw))]]
    /\ UNCHANGED <<variant, main, pyGlobals, hardware, mixer, _state, state_lock,
                   file, shutdownVars, hist>>

\* set_pwm_duty_percent(duty_percent)
SetBrightnessApply(t, ok) ==
    /\ variant = "lock" /\ req[t].op = "set_brightness" /\ req[t].pc = "apply_pwm"
    /\ set_pwm_duty_percent(req[t].duty, ok)
    /\ req' = [req EXCEPT ![t].pc = "lock_wait", ![t].hwfail = ApplyRaises(ok)]
    /\ hist' = NoteOverlap
    /\ UNCHANGED <<variant, main, pyGlobals, mixer, _state, state_lock, file,
                   shutdownVars>>

\* `with state_lock:` entered
AcquireLock(t) ==
    /\ variant = "lock" /\ req[t].pc = "lock_wait"
    /\ state_lock = 0
    /\ state_lock' = t
    /\ req' = [req EXCEPT ![t].pc = "locked"]
    /\ hist' = NoteOverlap
    /\ UNCHANGED <<variant, main, pyGlobals, hardware, mixer, _state, file,
                   shutdownVars>>

\* SetBrightnessStore leaving the `with` block without releasing the lock
SetBrightnessStoreHolding(t) ==
    /\ variant = "lock" /\ req[t].op = "set_brightness" /\ req[t].pc = "locked"
    /\ _state' = [_state EXCEPT !.brightness = req[t].value]
    /\ req' = [req EXCEPT ![t].pc = "idle", ![t].code = 200]
    /\ hist' = NoteOverlap
    /\ UNCHANGED <<variant, main, pyGlobals, hardware, mixer, state_lock, file,
                   shutdownVars>>

\* _state["brightness"] = value; lock released; 200 {status, value, duty}
SetBrightnessStore(t) ==
    /\ variant = "lock" /\ req[t].op = "set_brightness" /\ req[t].pc = "locked"
    /\ _state' = [_state EXCEPT !.brightness = req[t].value]
    /\ state_lock' = 0
    /\ req' = [req EXCEPT ![t].pc = "idle", ![t].code = 200]
    /\ hist' = NoteOverlap
    /\ UNCHANGED <<variant, main, pyGlobals, hardware, mixer, file, shutdownVars>>

SetVolumeStart(t, present, raw) ==
    /\ variant = "lock" /\ main = "serving" /\ req[t].pc = "idle"
    /\ req' = [req EXCEPT ![t] =
                 IF ~present
                 THEN [IdleReq EXCEPT !.op = "set_volume", !.code = 400]
                 ELSE [IdleReq EXCEPT !.op = "set_volume", !.pc = "lock_wait",
                                      !.present = TRUE, !.raw = raw,
                                      !.value = ClampVolume(raw)]]
    /\ UNCHANGED <<variant, main, pyGlobals, hardware, mixer, _state, state_lock,
                   file, shutdownVars, hist>>

SetVolumeStore(t) ==
    /\ variant = "lock" /\ req[t].op = "set_volume" /\ req[t].pc = "locked"
    /\ _state' = [_state EXCEPT !.volume = req[t].value]
    /\ state_lock' = 0
    /\ req' = [req EXCEPT ![t].pc = "idle", ![t].code = 200]
    /\ hist' = NoteOverlap
    /\ UNCHANGED <<variant, main, pyGlobals, hardware, mixer, file, shutdownVars>>

\* `if not track:` -> 400 (a missing key and "" alike); no look-up of the track
SetTrackStart(t, track) ==
    /\ variant = "lock" /\ main = "serving" /\ req[t].pc = "idle"
    /\ req' = [req EXCEPT ![t] =
                 IF track = ""
                 THEN [IdleReq EXCEPT !.op = "set_track", !.code = 400,
                                      !.track = track, !.before = <<_state.track>>]
                 ELSE [IdleReq EXCEPT !.op = "set_track", !.pc = "lock_wait",
                                      !.track = track, !.before = <<_state.track>>]]
    /\ UNCHANGED <<variant, main, pyGlobals, hardware, mixer, _state, state_lock,
                   file, shutdownVars, hist>>

SetTrackStore(t) ==
    /\ variant = "lock" /\ req[t].op = "set_track" /\ req[t].pc = "locked"
    /\ _state' = [_state EXCEPT !.track = req[t].track]
    /\ state_lock' = 0
    /\ req' = [req EXCEPT ![t].pc = "idle", ![t].code = 200]
    /\ hist' = NoteOverlap
    /\ UNCHANGED <<variant, main, pyGlobals, hardware, mixer, file, shutdownVars>>

\* GET /status
StatusStart(t) ==
    /\ variant = "lock" /\ main = "serving" /\ req[t].pc = "idle"
    /\ req' = [req EXCEPT ![t] = [IdleReq EXCEPT !.op = "status", !.pc = "lock_wait"]]
    /\ UNCHANGED <<variant, main, pyGlobals, hardware, mixer, _state, state_lock,
                   file, shutdownVars, hist>>

\* with state_lock: s = {brightness, volume, track, has_lgpio: HAS_LGPIO}; 200 s
StatusRead(t) ==
    /\ variant = "lock" /\ req[t].op = "status" /\ req[t].pc = "locked"
    /\ state_lock' = 0
    /\ req' = [req EXCEPT ![t].pc = "idle", ![t].code = 200,
                          ![t].body = <<_state.brightness, _state.volume,
                                        _state.track, HAS_LGPIO>>]
    /\ hist' = NoteOverlap
    /\ UNCHANGED <<variant, main, pyGlobals, hardware, mixer, _state, file,
                   shutdownVars>>

(***************************************************************************)
(* Lock variant: the keepalive thread, started at the end of the import    *)
(* when the lgpio driver is active.  Its loop only sleeps: it reads and    *)
(* writes nothing shared and never takes state_lock.  Thread w is the slot *)
(* of `req` that holds its position.                                       *)
(***************************************************************************)
\* t = threading.Thread(target=_watchdog_thread, daemon=True); t.start()
WatchdogStart(w) ==
    /\ variant = "lock" /\ HAS_LGPIO /\ chip # "None"
    /\ req[w].op = "none"
    /\ req' = [req EXCEPT ![w] = [IdleReq EXCEPT !.op = "watchdog", !.pc = "sleep"]]
    /\ UNCHANGED <<variant, main, pyGlobals, hardware, mixer, _state, state_lock,
                   file, shutdownVars, hist>>

\* time.sleep(60) returns, no exception: the loop goes round
WatchdogWake(w) ==
    /\ req[w].op = "watchdog" /\ req[w].pc = "sleep"
    /\ req' = [req EXCEPT ![w].pc = "loop"]
    /\ UNCHANGED <<variant, main, pyGlobals, hardware, mixer, _state, state_lock,
                   file, shutdownVars, hist>>

\* while True: time.sleep(60) is entered again
WatchdogSleep(w) ==
    /\ req[w].op = "watchdog" /\ req[w].pc = "loop"
    /\ req' = [req EXCEPT ![w].pc = "sleep"]
    /\ UNCHANGED <<variant, main, pyGlobals, hardware, mixer, _state, state_lock,
                   file, shutdownVars, hist>>

(***************************************************************************)
(* File variant: set_brightness, set_volume, set_track.  Each handler      *)
(* touches one collaborator and is one step.  An exception that leaves a   *)
(* handler is answered by the framework with status 500.                   *)
(***************************************************************************)
\* duty_cycle = (brightness / 255) * 100, brightness = int(data.get('value', 0))
FileDutyCycle(brightness) == brightness * 100

\* pwm.ChangeDutyCycle(duty_cycle) outside any try: RPi.GPIO raises ValueError
\* for a duty cycle outside 0.0..100.0, and the call may fail (ok = FALSE)
FileSetBrightness(t, present, raw, ok) ==
    /\ variant = "file" /\ main = "serving" /\ req[t].pc = "idle"
    /\ LET brightness == IF present THEN raw ELSE 0
           duty_cycle == FileDutyCycle(brightness)
           raises == ~ok \/ duty_cycle < 0 \/ duty_cycle > FULL_DUTY
       IN  /\ passed' = {duty_cycle}
           /\ hwDuty' = IF raises \/ swPwm # "running" THEN hwDuty ELSE duty_cycle
           /\ req' = [req EXCEPT ![t] =
                        [IdleReq EXCEPT !.op = "set_brightness", !.present = present,
                                        !.raw = raw, !.value = brightness,
                                        !.duty = duty_cycle, !.hwfail = ~ok,
                                        !.code = IF raises THEN 500 ELSE 200]]
    /\ UNCHANGED <<variant, main, pyGlobals, lgHandle, pinMode, swPwm, mixer,
                   _state, state_lock, file, shutdownVars, hist>>

\* volume_float = volume / 100, volume = int(data.get('value', 50));
\* pygame.mixer.music.set_volume ignores a negative volume and caps at 1.0
FileSetVolume(t, present, raw) ==
    /\ variant = "file" /\ main = "serving" /\ req[t].pc = "idle"
    /\ LET volume == IF present THEN raw ELSE DEFAULT_VOLUME
       IN  /\ mixer' = [mixer EXCEPT !.passed = {volume},
                                     !.volume = IF volume < 0 THEN @ ELSE Min(100, volume)]
           /\ req' = [req EXCEPT ![t] =
                        [IdleReq EXCEPT !.op = "set_volume", !.present = present,
                                        !.raw = raw, !.value = volume, !.code = 200]]
    /\ UNCHANGED <<variant, main, pyGlobals, hardware, _state, state_lock, file,
                   shutdownVars, hist>>

\* the music is stopped before the track is looked up; os.path.join(BASE_DIR, "")
\* is BASE_DIR itself, which exists and which load() rejects (-> except, 500)
FileSetTrack(t, track, ok) ==
    /\ variant = "file" /\ main = "serving" /\ req[t].pc = "idle"
    /\ LET stopped == [mixer EXCEPT !.busy = FALSE]
           exists == track = "" \/ track \in ExistingTracks
           loads == ok /\ track \in ExistingTracks
       IN  /\ mixer' = IF exists /\ loads
                       THEN [stopped EXCEPT !.track = track, !.busy = TRUE]
                       ELSE stopped
           /\ req' = [req EXCEPT ![t] =
                        [IdleReq EXCEPT !.op = "set_track", !.track = track,
                                        !.code = IF ~exists THEN 404
                                                 ELSE IF loads THEN 200 ELSE 500,
                                        !.before = <<mixer.track, mixer.busy>>]]
    /\ UNCHANGED <<variant, main, pyGlobals, hardware, _state, state_lock, file,
                   shutdownVars, hist>>

(***************************************************************************)
(* Shutdown.  Lock variant: _cleanup, registered with atexit, every driver *)
(* call in a try/except of its own.  File variant: cleanup(), three calls  *)
(* in a row with no try.  A call on a live resource may fail (ok = FALSE); *)
(* lgpio raises on a handle that is not open; RPi.GPIO and pygame accept   *)
(* stop / cleanup / quit on what is already released.                      *)
(***************************************************************************)
\* the history of the running cleanup call gains a release call it has made
Attempt(h, call) == [h EXCEPT !.attempted = @ \cup {call}]

\* `if HAS_RPI_GPIO and _pwm is not None and GPIO is not None:`
AfterLgpio ==
    IF HAS_RPI_GPIO /\ _pwm # "None" /\ GPIO # "None" THEN "rpi_stop" ELSE "return"

CleanupEnter ==
    /\ main \in {"serving", "exit"} /\ cpc = "idle" /\ cleanupCalls < MaxCleanups
    /\ main' = "exit"
    /\ cpc' = IF variant = "file" THEN "file_pwm_stop"
              ELSE IF HAS_LGPIO /\ chip # "None" THEN "lg_zero"
              ELSE AfterLgpio
    /\ hist' = [hist EXCEPT !.overlap = (@ \/ \E t \in DOMAIN req : req[t].pc # "idle"),
                            !.attempted = {}]
    /\ UNCHANGED <<variant, pyGlobals, hardware, mixer, _state, state_lock, file,
                   req, cleanupCalls>>

\* LgZero without its try/except: the exception of the driver call leaves
\* _cleanup, as the outer `except Exception` would let it if it were absent
LgZeroUnguarded(ok) ==
    /\ cpc = "lg_zero"
    /\ LET raises == ~ok \/ lgHandle # "open"
       IN  /\ passed' = {0}
           /\ hwDuty' = IF raises THEN hwDuty ELSE 0
           /\ cpc' = IF raises THEN "idle" ELSE "lg_close"
           /\ cleanupCalls' = IF raises THEN cleanupCalls + 1 ELSE cleanupCalls
           /\ hist' = [Attempt(hist, "tx_pwm") EXCEPT
                          !.cleanupFault = (@ \/ (~ok /\ lgHandle = "open")),
                          !.cleanupRaised = (@ \/ raises)]
    /\ UNCHANGED <<variant, main, pyGlobals, lgHandle, pinMode, swPwm, mixer,
                   _state, state_lock, file, req>>

\* try: lgpio.tx_pwm(chip, LED_PIN, 0, 0)
LgZero(ok) ==
    /\ cpc = "lg_zero"
    /\ LET raises == ~ok \/ lgHandle # "open"
       IN  /\ passed' = {0}
           /\ hwDuty' = IF raises THEN hwDuty ELSE 0
           /\ hist' = [Attempt(hist, "tx_pwm") EXCEPT
                          !.cleanupFault = (@ \/ (~ok /\ lgHandle = "open"))]
    /\ cpc' = "lg_close"
    /\ UNCHANGED <<variant, main, pyGlobals, lgHandle, pinMode, swPwm, mixer,
                   _state, state_lock, file, req, cleanupCalls>>

\* try: lgpio.gpiochip_close(chip)
LgClose(ok) ==
    /\ cpc = "lg_close"
    /\ LET raises == ~ok \/ lgHandle # "open"
       IN  /\ lgHandle' = IF raises THEN lgHandle ELSE "closed"
           /\ hist' = [Attempt(hist, "gpiochip_close") EXCEPT
                          !.cleanupFault = (@ \/ (~ok /\ lgHandle = "open"))]
    /\ cpc' = AfterLgpio
    /\ UNCHANGED <<variant, main, pyGlobals, pinMode, swPwm, hwDuty, passed, mixer,
                   _state, state_lock, file, req, cleanupCalls>>

\* try: _pwm.ChangeDutyCycle(0); _pwm.stop()  -- one try for both calls
RpiStop(outcome) ==
    /\ cpc = "rpi_stop"
    /\ passed' = {0}
    /\ CASE outcome = "ok" ->
              /\ swPwm' = "stopped" /\ hwDuty' = 0
              /\ hist' = Attempt(Attempt(hist, "ChangeDutyCycle"), "stop")
         [] outcome = "duty_raises" ->
              \* the except clause is entered before _pwm.stop() is called
              /\ UNCHANGED <<swPwm, hwDuty>>
              /\ hist' = [Attempt(hist, "ChangeDutyCycle") EXCEPT !.cleanupFault = TRUE]
         [] outcome = "stop_raises" ->
              /\ hwDuty' = IF swPwm = "running" THEN 0 ELSE hwDuty
              /\ hist' = [Attempt(Attempt(hist, "ChangeDutyCycle"), "stop") EXCEPT
                             !.cleanupFault = TRUE]
              /\ UNCHANGED swPwm
    /\ cpc' = "rpi_cleanup"
    /\ UNCHANGED <<variant, main, pyGlobals, lgHandle, pinMode, mixer, _state,
                   state_lock, file, req, cleanupCalls>>

\* try: GPIO.cleanup(LED_PIN)
RpiCleanup(ok) ==
    /\ cpc = "rpi_cleanup"
    /\ pinMode' = IF ok THEN "unset" ELSE pinMode
    /\ hist' = [Attempt(hist, "cleanup") EXCEPT !.cleanupFault = (@ \/ ~ok)]
    /\ cpc' = "return"
    /\ UNCHANGED <<variant, main, pyGlobals, lgHandle, swPwm, hwDuty, passed, mixer,
                   _state, state_lock, file, req, cleanupCalls>>

\* the call returns
CleanupReturn ==
    /\ cpc = "return"
    /\ cpc' = "idle"
    /\ cleanupCalls' = cleanupCalls + 1
    /\ UNCHANGED <<variant, main, pyGlobals, hardware, mixer, _state, state_lock,
                   file, req, hist>>

\* an exception leaves cleanup(): the calls after it are not made
FileCleanupRaises(call) ==
    /\ cpc' = "idle"
    /\ cleanupCalls' = cleanupCalls + 1
    /\ hist' = [Attempt(hist, call) EXCEPT !.cleanupFault = TRUE, !.cleanupRaised = TRUE]

\* pwm.stop()
FilePwmStop(ok) ==
    /\ cpc = "file_pwm_stop"
    /\ IF ok
       THEN /\ swPwm' = "stopped" /\ hwDuty' = 0
            /\ cpc' = "file_gpio_cleanup"
            /\ hist' = Attempt(hist, "stop")
            /\ UNCHANGED cleanupCalls
       ELSE FileCleanupRaises("stop") /\ UNCHANGED <<swPwm, hwDuty>>
    /\ UNCHANGED <<variant, main, pyGlobals, lgHandle, pinMode, passed, mixer,
                   _state, state_lock, file, req>>

\* GPIO.cleanup()
FileGpioCleanup(ok) ==
    /\ cpc = "file_gpio_cleanup"
    /\ IF ok
       THEN /\ pinMode' = "unset"
            /\ cpc' = "file_mixer_quit"
            /\ hist' = Attempt(hist, "cleanup")
            /\ UNCHANGED cleanupCalls
       ELSE FileCleanupRaises("cleanup") /\ UNCHANGED pinMode
    /\ UNCHANGED <<variant, main, pyGlobals, lgHandle, swPwm, hwDuty, passed, mixer,
                   _state, state_lock, file, req>>

\* pygame.mixer.quit()
FileMixerQuit(ok) ==
    /\ cpc = "file_mixer_quit"
    /\ IF ok
       THEN /\ mixer' = [mixer EXCEPT !.init = FALSE, !.busy = FALSE]
            /\ cpc' = "return"
            /\ hist' = Attempt(hist, "quit")
            /\ UNCHANGED cleanupCalls
       ELSE FileCleanupRaises("quit") /\ UNCHANGED mixer
    /\ UNCHANGED <<variant, main, pyGlobals, hardware, _state, state_lock, file, req>>

Shutdown ==
    \/ CleanupEnter
    \/ CleanupReturn
    \/ \E outcome \in {"ok", "duty_raises", "stop_raises"} : RpiStop(outcome)
    \/ \E ok \in BOOLEAN :
        \/ LgZero(ok)
        \/ LgClose(ok)
        \/ RpiCleanup(ok)
        \/ FilePwmStop(ok)
        \/ FileGpioCleanup(ok)
        \/ FileMixerQuit(ok)

(***************************************************************************)
(* Messages.  A text is a sequence of character codes; a message is the    *)
(* dictionary {text, timestamp}.                                           *)
(***************************************************************************)
Whitespace == {9, 10, 11, 12, 13, 32}

RECURSIVE LStrip(_)
LStrip(s) == IF s # <<>> /\ Head(s) \in Whitespace THEN LStrip(Tail(s)) ELSE s

RECURSIVE RStrip(_)
RStrip(s) ==
    IF s # <<>> /\ s[Len(s)] \in Whitespace THEN RStrip(SubSeq(s, 1, Len(s) - 1)) ELSE s

\* str.strip()
Strip(s) == RStrip(LStrip(s))

Message(text) == [text |-> text, timestamp |-> "now"]

\* adds still allowed: accepted and in-flight ones stay below the cap
AddBudget(cap) ==
    Len(hist.accepted)
      + Cardinality({t \in DOMAIN req : req[t].op = "add_message" /\ req[t].pc # "idle"})
      < cap

(***************************************************************************)
(* Lock variant: add_message_route / add_message, get_messages             *)
(***************************************************************************)
\* `if not text:` -> 400 (a missing key and "" alike); no strip, no length check
AddMessageStart(t, text, cap) ==
    /\ variant = "lock" /\ main = "serving" /\ req[t].pc = "idle"
    /\ AddBudget(cap)
    /\ req' = [req EXCEPT ![t] =
                 IF text = <<>>
                 THEN [IdleReq EXCEPT !.op = "add_message", !.code = 400, !.text = text]
                 ELSE [IdleReq EXCEPT !.op = "add_message", !.pc = "lock_wait",
                                      !.text = text]]
    /\ UNCHANGED <<variant, main, pyGlobals, hardware, mixer, _state, state_lock,
                   file, shutdownVars, hist>>

\* with state_lock: _state["messages"].append(obj); 200 {status, message}
AddMessageStore(t) ==
    /\ variant = "lock" /\ req[t].op = "add_message" /\ req[t].pc = "locked"
    /\ _state' = [_state EXCEPT !.messages = Append(@, Message(req[t].text))]
    /\ state_lock' = 0
    /\ req' = [req EXCEPT ![t].pc = "idle", ![t].code = 200]
    /\ hist' = [NoteOverlap EXCEPT !.accepted = Append(@, req[t].text)]
    /\ UNCHANGED <<variant, main, pyGlobals, hardware, mixer, file, shutdownVars>>

GetMessagesStart(t) ==
    /\ variant = "lock" /\ main = "serving" /\ req[t].pc = "idle"
    /\ req' = [req EXCEPT ![t] = [IdleReq EXCEPT !.op = "get_messages", !.pc = "lock_wait"]]
    /\ UNCHANGED <<variant, main, pyGlobals, hardware, mixer, _state, state_lock,
                   file, shutdownVars, hist>>

\* list(_state["messages"])[-200:]
LastMessages(msgs) ==
    IF Len(msgs) > GET_LIMIT THEN SubSeq(msgs, Len(msgs) - GET_LIMIT + 1, Len(msgs)) ELSE msgs

\* with state_lock: msgs = list(_state["messages"])[-200:]; 200 {messages}
GetMessagesRead(t) ==
    /\ variant = "lock" /\ req[t].op = "get_messages" /\ req[t].pc = "locked"
    /\ state_lock' = 0
    /\ req' = [req EXCEPT ![t].pc = "idle", ![t].code = 200,
                          ![t].messages = LastMessages(_state.messages)]
    /\ hist' = NoteOverlap
    /\ UNCHANGED <<variant, main, pyGlobals, hardware, mixer, _state, file,
                   shutdownVars>>

(***************************************************************************)
(* File variant: load_messages, save_messages, add_message, get_messages.  *)
(* messages.json is [kind, messages]: kind "json" holds the document       *)
(* {"messages": [...]}; kind "corrupt" is a file json.load rejects (empty  *)
(* after open(..., 'w') truncated it, or partly written).                  *)
(***************************************************************************)
\* load_messages(): the messages of the document; [] when json.load raises
load_messages == IF file.kind = "json" THEN file.messages ELSE <<>>

\* characters json.dump writes for one character of a string (ensure_ascii)
CharBytes(c) ==
    IF c > 127 THEN 6
    ELSE IF c \in {8, 9, 10, 12, 13, 34, 92} THEN 2
    ELSE IF c < 32 THEN 6
    ELSE 1

RECURSIVE StringBytes(_)
StringBytes(text) ==
    IF text = <<>> THEN 0 ELSE CharBytes(Head(text)) + StringBytes(Tail(text))

RECURSIVE TextBytes(_)
TextBytes(msgs) ==
    IF msgs = <<>> THEN 0 ELSE StringBytes(Head(msgs).text) + TextBytes(Tail(msgs))

\* length of json.dump({'messages': msgs}): {"messages": [ ... ]} with
\* {"text": "...", "timestamp": "<26 characters>"} per message, ", " between
\* (datetime.now().isoformat() with its microseconds)
DocBytes(msgs) ==
    16 + TextBytes(msgs) + 55 * Len(msgs) + (IF Len(msgs) > 1 THEN 2 * (Len(msgs) - 1) ELSE 0)

\* what the file holds after a writer that opened it earlier writes its
\* document from offset 0 and closes: a longer document written meanwhile by
\* another writer keeps its tail
Written(msgs) ==
    IF file.kind = "json" /\ DocBytes(file.messages) > DocBytes(msgs)
    THEN [kind |-> "corrupt", messages |-> <<>>]
    ELSE [kind |-> "json", messages |-> msgs]

\* text = data.get('text', '').strip(); `if not text or len(text) > 100` -> 400;
\* else messages = load_messages(); messages.append(msg)
FileAddMessageStart(t, text, cap) ==
    /\ variant = "file" /\ main = "serving" /\ req[t].pc = "idle"
    /\ AddBudget(cap)
    /\ LET stripped == Strip(text)
       IN  req' = [req EXCEPT ![t] =
                     IF stripped = <<>> \/ Len(stripped) > MAX_TEXT
                     THEN [IdleReq EXCEPT !.op = "add_message", !.code = 400,
                                          !.text = stripped]
                     ELSE [IdleReq EXCEPT !.op = "add_message", !.pc = "save_open",
                                          !.text = stripped,
                                          !.messages = Append(load_messages, Message(stripped)),
                                          !.before = <<file>>]]
    /\ UNCHANGED <<variant, main, pyGlobals, hardware, mixer, _state, state_lock,
                   file, shutdownVars, hist>>

\* save_messages: open(MESSAGES_FILE, 'w') truncates the file; when it raises
\* save_messages returns False and add_message answers 500
FileSaveOpen(t, ok) ==
    /\ variant = "file" /\ req[t].op = "add_message" /\ req[t].pc = "save_open"
    /\ IF ok
       THEN /\ file' = [kind |-> "corrupt", messages |-> <<>>]
            /\ req' = [req EXCEPT ![t].pc = "save_dump"]
            /\ hist' = NoteOverlap
       ELSE /\ req' = [req EXCEPT ![t].pc = "idle", ![t].code = 500]
            /\ hist' = [NoteOverlap EXCEPT !.writeFault = TRUE]
            /\ UNCHANGED file
    /\ UNCHANGED <<variant, main, pyGlobals, hardware, mixer, _state, state_lock,
                   shutdownVars>>

\* save_messages: json.dump({'messages': messages}, f) and the close; when it
\* raises the file keeps what the failed write left and add_message answers 500
FileSaveDump(t, ok) ==
    /\ variant = "file" /\ req[t].op = "add_message" /\ req[t].pc = "save_dump"
    /\ IF ok
       THEN /\ file' = Written(req[t].messages)
            /\ req' = [req EXCEPT ![t].pc = "idle", ![t].code = 200]
            /\ hist' = [NoteOverlap EXCEPT !.accepted = Append(@, req[t].text)]
       ELSE /\ file' \in {file, [kind |-> "corrupt", messages |-> <<>>]}
            /\ req' = [req EXCEPT ![t].pc = "idle", ![t].code = 500]
            /\ hist' = [NoteOverlap EXCEPT !.writeFault = TRUE]
    /\ UNCHANGED <<variant, main, pyGlobals, hardware, mixer, _state, state_lock,
                   shutdownVars>>

\* messages = load_messages(); 200 {messages}: the whole list, no limit
FileGetMessages(t) ==
    /\ variant = "file" /\ main = "serving" /\ req[t].pc = "idle"
    /\ req' = [req EXCEPT ![t] =
                 [IdleReq EXCEPT !.op = "get_messages", !.code = 200,
                                 !.messages = load_messages]]
    /\ UNCHANGED <<variant, main, pyGlobals, hardware, mixer, _state, state_lock,
                   file, shutdownVars, hist>>

\* the steps of the message requests that take no input
MessageSteps(t) ==
    \/ AcquireLock(t)
    \/ AddMessageStore(t)
    \/ GetMessagesStart(t)
    \/ GetMessagesRead(t)
    \/ FileGetMessages(t)
    \/ \E ok \in BOOLEAN : FileSaveOpen(t, ok) \/ FileSaveDump(t, ok)

(***************************************************************************)
(* Requests                                                                *)
(***************************************************************************)
BrightnessRequests(workers) ==
    \E t \in workers :
        \/ \E raw \in IntInputs, present \in BOOLEAN :
              \/ SetBrightnessStart(t, present, raw)
              \/ \E ok \in BOOLEAN : FileSetBrightness(t, present, raw, ok)
        \/ \E ok \in BOOLEAN : SetBrightnessApply(t, ok)
        \/ AcquireLock(t)
        \/ SetBrightnessStore(t)

AudioRequests(workers) ==
    \E t \in workers :
        \/ \E raw \in IntInputs, present \in BOOLEAN :
              \/ SetVolumeStart(t, present, raw)
              \/ FileSetVolume(t, present, raw)
        \/ \E track \in TrackInputs :
              \/ SetTrackStart(t, track)
              \/ \E ok \in BOOLEAN : FileSetTrack(t, track, ok)
        \/ SetVolumeStore(t)
        \/ SetTrackStore(t)

(***************************************************************************)
(* Spec: one process from import to exit, serving set_brightness.          *)
(***************************************************************************)
Next == Startup \/ BrightnessRequests(Threads) \/ Shutdown

Spec == InitBoot /\ [][Next]_vars

(***************************************************************************)
(* SpecControl: a process that has finished its import, with any of the    *)
(* drivers the import can select, serving the three control requests.      *)
(***************************************************************************)
InitServing(workers, drivers) ==
    /\ variant \in {"lock", "file"}
    /\ main = "serving"
    /\ \E driver \in drivers \cup {"fallback"} :
          /\ variant = "file" => driver = "fallback"
          /\ variant = "lock" => driver \in drivers
          /\ HAS_LGPIO = (driver = "primary")
          /\ HAS_RPI_GPIO = (variant = "lock" /\ driver = "fallback")
          /\ chip = IF driver = "primary" THEN "handle" ELSE "None"
          /\ GPIO = IF driver = "fallback" THEN "module" ELSE "None"
          /\ _pwm = IF driver = "fallback" THEN "object" ELSE "None"
          /\ lgHandle = IF driver = "primary" THEN "open" ELSE "none"
          /\ pinMode = IF driver = "fallback" THEN "out" ELSE "unset"
          /\ swPwm = IF driver = "fallback" THEN "running" ELSE "none"
          /\ passed = IF driver = "dry-run" THEN {} ELSE {0}
    /\ hwDuty = 0
    /\ mixer = [NoMixer EXCEPT !.init = (variant = "file")]
    /\ _state = InitState
    /\ state_lock = 0
    /\ file = [kind |-> "json", messages |-> <<>>]
    /\ req = [t \in workers |-> IdleReq]
    /\ cpc = "idle"
    /\ cleanupCalls = 0
    /\ hist = NoHist

NextControl == BrightnessRequests(Threads) \/ AudioRequests(Threads)

SpecControl ==
    InitServing(Threads, {"primary", "fallback", "dry-run"}) /\ [][NextControl]_vars

(***************************************************************************)
(* SpecMsg: concurrent writers and readers of the message store.           *)
(***************************************************************************)
Writers == 1..NWriters

\* "a", "b"
MsgTexts == {<<97>>, <<98>>}

NextMsg ==
    \E t \in Writers :
        \/ \E text \in MsgTexts :
              \/ AddMessageStart(t, text, MaxMsgs)
              \/ FileAddMessageStart(t, text, MaxMsgs)
        \/ MessageSteps(t)

SpecMsg == InitServing(Writers, {"dry-run"}) /\ [][NextMsg]_vars

(***************************************************************************)
(* SpecText: add_message and get_messages over texts of every kind.        *)
(***************************************************************************)
\* "", " ", "a", " b ", 100 and 101 times "a"
TextInputs ==
    {<<>>, <<32>>, <<97>>, <<32, 98, 32>>,
     [i \in 1..MAX_TEXT |-> 97], [i \in 1..(MAX_TEXT + 1) |-> 97]}

NextText ==
    \E t \in Threads :
        \/ \E text \in TextInputs :
              \/ AddMessageStart(t, text, MaxMsgs)
              \/ FileAddMessageStart(t, text, MaxMsgs)
        \/ MessageSteps(t)

SpecText == InitServing(Threads, {"dry-run"}) /\ [][NextText]_vars

(***************************************************************************)
(* SpecLog: one client appending numbered messages to a long log.          *)
(***************************************************************************)
\* the one-character text of the next message
NextLogText == <<1000 + Len(hist.accepted) + 1>>

NextLog ==
    \E t \in {1} :
        \/ AddMessageStart(t, NextLogText, MaxLog)
        \/ FileAddMessageStart(t, NextLogText, MaxLog)
        \/ MessageSteps(t)

SpecLog == InitServing({1}, {"dry-run"}) /\ [][NextLog]_vars

(***************************************************************************)
(* SpecStatus: a served process answering set_brightness and status.       *)
(***************************************************************************)
StatusRequests(workers) ==
    \E t \in workers : StatusStart(t) \/ StatusRead(t)

NextStatus == BrightnessRequests(Threads) \/ StatusRequests(Threads)

SpecStatus ==
    InitServing(Threads, {"primary", "fallback", "dry-run"}) /\ [][NextStatus]_vars

(***************************************************************************)
(* SpecDuty: one client sending set_brightness with every value of the     *)
(* slider to a process on a physical driver whose calls succeed.           *)
(***************************************************************************)
NextDuty ==
    \E t \in {1} :
        \/ \E raw \in 0..MAX_BRIGHTNESS : SetBrightnessStart(t, TRUE, raw)
        \/ SetBrightnessApply(t, TRUE)
        \/ AcquireLock(t)
        \/ SetBrightnessStore(t)

SpecDuty == InitServing({1}, {"primary", "fallback"}) /\ [][NextDuty]_vars

(***************************************************************************)
(* SpecRace: concurrent set_brightness requests, every driver call         *)
(* succeeding.                                                             *)
(***************************************************************************)
Racers == 1..NRacers

NextRace ==
    \E t \in Racers :
        \/ \E raw \in IntInputs : SetBrightnessStart(t, TRUE, raw)
        \/ SetBrightnessApply(t, TRUE)
        \/ AcquireLock(t)
        \/ SetBrightnessStore(t)

SpecRace == InitServing(Racers, {"primary", "fallback"}) /\ [][NextRace]_vars

(***************************************************************************)
(* SpecLive: the lock variant serving every route on concurrent threads    *)
(* beside the keepalive thread, under fair scheduling: a thread that can   *)
(* take a step of its handler eventually takes it (weak fairness), and a   *)
(* thread waiting for a lock that is free again and again eventually gets  *)
(* it (strong fairness).  Clients are not obliged to send requests.        *)
(***************************************************************************)
LiveThreads == 1..NLive

\* the slot of the keepalive thread
WatchdogThread == NLive + 1

\* the steps of a handler after its first, the lock acquisition excepted
HandlerStep(t) ==
    \/ \E ok \in BOOLEAN : SetBrightnessApply(t, ok)
    \/ SetBrightnessStore(t)
    \/ SetVolumeStore(t)
    \/ SetTrackStore(t)
    \/ AddMessageStore(t)
    \/ GetMessagesRead(t)
    \/ StatusRead(t)

\* a request arrives: value 128, track song.mp3, text "a"
RequestStart(t) ==
    \/ \E present \in BOOLEAN : SetBrightnessStart(t, present, 128)
    \/ SetVolumeStart(t, TRUE, 128)
    \/ SetTrackStart(t, "song.mp3")
    \/ AddMessageStart(t, <<97>>, MaxMsgs)
    \/ GetMessagesStart(t)
    \/ StatusStart(t)

Watchdog ==
    \E w \in {WatchdogThread} : WatchdogStart(w) \/ WatchdogWake(w) \/ WatchdogSleep(w)

NextLive ==
    \/ \E t \in LiveThreads : RequestStart(t) \/ HandlerStep(t) \/ AcquireLock(t)
    \/ Watchdog

Fairness ==
    \A t \in LiveThreads : WF_vars(HandlerStep(t)) /\ SF_vars(AcquireLock(t))

InitLive ==
    /\ variant = "lock"
    /\ InitServing(1..WatchdogThread, {"primary", "fallback", "dry-run"})

SpecLive == InitLive /\ [][NextLive]_vars /\ Fairness

(***************************************************************************)
(* Vocabulary of the claims                                                *)
(***************************************************************************)
Booted == main \in {"serving", "exit", "crashed"}

PrimaryActive == HAS_LGPIO /\ chip # "None"

\* the RPi.GPIO software PWM: the fallback of the lock variant, the only
\* driver of the file variant
FallbackActive ==
    IF variant = "lock" THEN HAS_RPI_GPIO /\ _pwm # "None" ELSE _pwm # "None"

DryRunActive == main # "crashed" /\ ~PrimaryActive /\ ~FallbackActive

\* thread t ends a request in this step
Completes(t) == req'[t].pc = "idle" /\ req'[t].code # 0 /\ req'[t] # req[t]

\* the mapping the specification gives: clamp(v, 0, 255) * 100 / 255
SpecToPercent(v) == (IF v < 0 THEN 0 ELSE IF v > 255 THEN 255 ELSE v) * 100

(***************************************************************************)
(* C2.  Once module import is over the process is running with exactly one *)
(* of the primary, fallback and dry-run drivers active, whatever the       *)
(* probes returned, and primary and fallback are never both active.        *)
(***************************************************************************)
C2_OneActiveDriver ==
    /\ Booted =>
          /\ main # "crashed"
          /\ Cardinality({d \in {"primary", "fallback", "dry-run"} :
                            \/ d = "primary" /\ PrimaryActive
                            \/ d = "fallback" /\ FallbackActive
                            \/ d = "dry-run" /\ DryRunActive}) = 1
    /\ ~(PrimaryActive /\ FallbackActive)

\* C2 restricted to the lock variant, whose import does probe (holds)
C2_LockVariantOneActiveDriver == variant = "lock" => C2_OneActiveDriver

(***************************************************************************)
(* C3.  A set_brightness request that carries a value and whose driver     *)
(* call raises still ends with status ok (200), and the brightness stored  *)
(* when it ends is the requested value clamped to 0..255.                  *)
(***************************************************************************)
C3_HardwareErrorAbsorbed ==
    [][\A t \in DOMAIN req :
          (Completes(t) /\ req'[t].op = "set_brightness" /\ req'[t].present
                        /\ req'[t].hwfail)
          => /\ req'[t].code = 200
             /\ variant = "lock" =>
                  _state'.brightness = Max(0, Min(255, req'[t].raw))]_vars

\* C3 restricted to the lock variant (holds)
C3_LockVariantHardwareErrorAbsorbed ==
    [][\A t \in DOMAIN req :
          (variant = "lock" /\ Completes(t) /\ req'[t].op = "set_brightness"
                            /\ req'[t].present /\ req'[t].hwfail)
          => /\ req'[t].code = 200
             /\ _state'.brightness = Max(0, Min(255, req'[t].raw))]_vars

(***************************************************************************)
(* C4.  After each of two successive cleanup calls, for every driver the   *)
(* import can leave active, no exception has left the call and the output  *)
(* is at 0.  The claim is about a quiescent shutdown on working hardware:  *)
(* the lock variant never lets an exception out in any case; the output is *)
(* 0 when no release call failed on a live resource and no request         *)
(* overlapped the shutdown.                                                *)
(***************************************************************************)
C4_CleanupIdempotent ==
    (cleanupCalls >= 1 /\ cpc = "idle") =>
        /\ variant = "lock" => ~hist.cleanupRaised
        /\ (~hist.cleanupFault /\ ~hist.overlap) =>
              ~hist.cleanupRaised /\ hwDuty = 0

\* the second call has returned on the primary driver, whose output was on
C4_Witness ==
    /\ cleanupCalls = 2 /\ cpc = "idle"
    /\ ~hist.cleanupFault /\ ~hist.overlap
    /\ HAS_LGPIO /\ lgHandle = "closed"
    /\ _state.brightness = 128

(***************************************************************************)
(* C7.  A set_track request naming a track that does not exist ends with   *)
(* 404 and leaves the stored / playing track as it was before the request. *)
(***************************************************************************)
C7_MissingTrackNotFound ==
    [][\A t \in DOMAIN req :
          (Completes(t) /\ req'[t].op = "set_track"
                        /\ req'[t].track \notin (ExistingTracks \cup {""}))
          => /\ req'[t].code = 404
             /\ IF variant = "lock"
                THEN <<_state'.track>> = req'[t].before
                ELSE <<mixer'.track, mixer'.busy>> = req'[t].before]_vars

(***************************************************************************)
(* C8.  In every reachable state the stored brightness is in 0..255, the   *)
(* stored volume is in 0..100, every duty handed to the hardware driver is *)
(* within 0..100 percent and every volume handed to the audio collaborator *)
(* is within 0.0..1.0.                                                     *)
(***************************************************************************)
C8_ValuesInRange ==
    /\ _state.brightness \in 0..MAX_BRIGHTNESS
    /\ _state.volume \in 0..MAX_VOLUME
    /\ \A d \in passed : 0 <= d /\ d <= FULL_DUTY
    /\ \A v \in mixer.passed : 0 <= v /\ v <= 100

\* C8 restricted to the lock variant (holds)
C8_LockVariantValuesInRange == variant = "lock" => C8_ValuesInRange

(***************************************************************************)
(* C9.  The duty set_brightness computes for a request value v is          *)
(* clamp(v, 0, 255) * 100 / 255: 0 for v <= 0, 100 for v >= 255, and       *)
(* non-decreasing in v.                                                    *)
(***************************************************************************)
C9_DutyMapping ==
    LET computed == {t \in DOMAIN req : req[t].op = "set_brightness" /\ req[t].present}
    IN  /\ \A t \in computed :
              /\ req[t].duty = SpecToPercent(req[t].raw)
              /\ req[t].raw <= 0 => req[t].duty = 0
              /\ req[t].raw >= 255 => req[t].duty = FULL_DUTY
        /\ \A t, u \in computed : req[t].raw <= req[u].raw => req[t].duty <= req[u].duty

\* C9 restricted to the lock variant (holds)
C9_LockVariantDutyMapping == variant = "lock" => C9_DutyMapping

(***************************************************************************)
(* Vocabulary of the message claims                                        *)
(***************************************************************************)
\* the stored message sequence: the in-memory list, or what the file yields
Stored == IF variant = "lock" THEN _state.messages ELSE load_messages

StoredTexts == [i \in DOMAIN Stored |-> Stored[i].text]

Occurrences(seq, x) == Cardinality({i \in DOMAIN seq : seq[i] = x})

SameBag(s1, s2) ==
    /\ Len(s1) = Len(s2)
    /\ \A i \in DOMAIN s1 : Occurrences(s1, s1[i]) = Occurrences(s2, s1[i])

\* a text the specification accepts: 1..100 characters after trimming
ValidText(text) == Strip(text) # <<>> /\ Len(Strip(text)) <= 100

AllIdle == \A t \in DOMAIN req : req[t].pc = "idle"

\* the last min(Len(msgs), n) elements of msgs, in order
SpecSuffix(msgs, n) ==
    [i \in 1..Min(Len(msgs), n) |-> msgs[Len(msgs) - Min(Len(msgs), n) + i]]

(***************************************************************************)
(* C1.  Concurrent add-message requests with valid texts all end with      *)
(* status ok, and once all have ended (no write having failed) the stored  *)
(* sequence holds exactly the accepted messages: none is lost.             *)
(***************************************************************************)
C1_NoLostUpdate ==
    /\ \A t \in DOMAIN req :
          (req[t].op = "add_message" /\ req[t].pc = "idle" /\ ValidText(req[t].text)
             /\ ~hist.writeFault)
          => req[t].code = 200
    /\ (AllIdle /\ ~hist.writeFault) => SameBag(StoredTexts, hist.accepted)

\* C1 restricted to the lock variant (holds)
C1_LockVariantNoLostUpdate == variant = "lock" => C1_NoLostUpdate

(***************************************************************************)
(* C5.  An add-message request whose text is empty after trimming or       *)
(* longer than 100 characters ends with 400 and leaves the stored sequence *)
(* unchanged.                                                              *)
(***************************************************************************)
C5_InvalidTextRejected ==
    [][\A t \in DOMAIN req :
          (Completes(t) /\ req'[t].op = "add_message" /\ ~ValidText(req'[t].text))
          => req'[t].code = 400 /\ Stored' = Stored]_vars

\* C5 restricted to the file variant (holds)
C5_FileVariantInvalidTextRejected ==
    [][\A t \in DOMAIN req :
          (variant = "file" /\ Completes(t) /\ req'[t].op = "add_message"
                            /\ ~ValidText(req'[t].text))
          => req'[t].code = 400 /\ Stored' = Stored]_vars

(***************************************************************************)
(* C6.  get-messages returns the last min(k, 200) of the k stored          *)
(* messages, in append order, and changes no state.                        *)
(***************************************************************************)
C6_GetMessagesLast200 ==
    [][\A t \in DOMAIN req :
          (Completes(t) /\ req'[t].op = "get_messages")
          => /\ req'[t].messages = SpecSuffix(Stored, 200)
             /\ Len(req'[t].messages) <= 200
             /\ Stored' = Stored]_vars

\* C6 restricted to the lock variant (holds)
C6_LockVariantGetMessagesLast200 ==
    [][\A t \in DOMAIN req :
          (variant = "lock" /\ Completes(t) /\ req'[t].op = "get_messages")
          => /\ req'[t].messages = SpecSuffix(Stored, 200)
             /\ Len(req'[t].messages) <= 200
             /\ Stored' = Stored]_vars

(***************************************************************************)
(* C10.  An add-message request whose write of the messages file fails     *)
(* (at open or while writing) ends with 500 and leaves the file holding    *)
(* exactly what it held before the request.                                *)
(***************************************************************************)
C10_FailedWriteKeepsFile ==
    [][\A t \in DOMAIN req :
          (variant = "file" /\ req[t].op = "add_message"
             /\ req[t].pc \in {"save_open", "save_dump"}
             /\ req'[t].pc = "idle" /\ hist'.writeFault /\ req'[t].code # 200)
          => req'[t].code = 500 /\ <<file'>> = req[t].before]_vars

\* C10 for a write that fails at open (holds when no other writer runs)
C10_FailedOpenKeepsFile ==
    [][\A t \in DOMAIN req :
          (variant = "file" /\ req[t].op = "add_message" /\ req[t].pc = "save_open"
             /\ req'[t].pc = "idle")
          => req'[t].code = 500 /\ <<file'>> = req[t].before]_vars

(***************************************************************************)
(* C11.  The flag a status response carries is true exactly when the       *)
(* active driver is a physical one (primary or fallback), false exactly in *)
(* dry-run mode, and the response is the stored brightness, volume and     *)
(* track as they are while the lock is held.                               *)
(***************************************************************************)
C11_StatusHardwareBacked ==
    [][\A t \in DOMAIN req :
          (Completes(t) /\ req'[t].op = "status")
          => /\ req'[t].code = 200
             /\ req'[t].body = <<_state.brightness, _state.volume, _state.track,
                                 ActiveDriver \in {"primary", "fallback"}>>]_vars

\* what status does report: the snapshot, with the flag of the primary driver
\* alone (holds)
C11_StatusReportsPrimaryOnly ==
    [][\A t \in DOMAIN req :
          (Completes(t) /\ req'[t].op = "status")
          => /\ req'[t].code = 200
             /\ state_lock = t
             /\ req'[t].body = <<_state.brightness, _state.volume, _state.track,
                                 ActiveDriver = "primary">>]_vars

\* the example of the specification: dry-run mode, set-brightness 128, then
\* status answers brightness 128 and the flag false (reached)
C11_DryRunExample ==
    \E t \in DOMAIN req :
        /\ req[t].op = "status" /\ req[t].code = 200
        /\ ActiveDriver = "dry-run"
        /\ req[t].body[1] = 128 /\ req[t].body[4] = FALSE

(***************************************************************************)
(* C12.  A set_brightness or set_volume request whose body has no `value`  *)
(* ends with 400, and the stored brightness and volume, the hardware       *)
(* output and the audio output are after the request what they were        *)
(* before it.                                                              *)
(***************************************************************************)
C12_MissingValueRejected ==
    [][\A t \in DOMAIN req :
          (Completes(t) /\ req'[t].op \in {"set_brightness", "set_volume"}
                        /\ ~req'[t].present)
          => /\ req'[t].code = 400
             /\ UNCHANGED <<_state, hwDuty, passed, mixer>>]_vars

\* C12 restricted to the lock variant (holds)
C12_LockVariantMissingValueRejected ==
    [][\A t \in DOMAIN req :
          (variant = "lock" /\ Completes(t)
             /\ req'[t].op \in {"set_brightness", "set_volume"} /\ ~req'[t].present)
          => /\ req'[t].code = 400
             /\ UNCHANGED <<_state, hwDuty, passed, mixer>>]_vars

(***************************************************************************)
(* C13.  The release calls of a cleanup call are independent: when the     *)
(* call ends, no exception has left it and every release call the function *)
(* holds for the active driver has been attempted, whichever of them       *)
(* raised.                                                                 *)
(***************************************************************************)
\* the release calls cleanup holds for the driver in use
ReleaseCalls ==
    IF variant = "file" THEN {"stop", "cleanup", "quit"}
    ELSE IF ActiveDriver = "primary" THEN {"tx_pwm", "gpiochip_close"}
    ELSE IF ActiveDriver = "fallback" THEN {"ChangeDutyCycle", "stop", "cleanup"}
    ELSE {}

C13_ReleaseStepsIndependent ==
    [][(cpc # "idle" /\ cpc' = "idle")
          => /\ cpc = "return"
             /\ ReleaseCalls \subseteq hist'.attempted]_vars

\* C13 for the lock variant on the primary driver, whose two release calls
\* each sit in a try of their own (holds)
C13_PrimaryReleaseStepsIndependent ==
    [][(variant = "lock" /\ ActiveDriver = "primary" /\ cpc # "idle" /\ cpc' = "idle")
          => /\ cpc = "return"
             /\ ReleaseCalls \subseteq hist'.attempted]_vars

\* C13 for the lock variant on the fallback driver, the two calls on the PWM
\* object taken as one release step (holds)
C13_FallbackPinCleanupAttempted ==
    [][(variant = "lock" /\ ActiveDriver = "fallback" /\ cpc # "idle" /\ cpc' = "idle")
          => /\ cpc = "return"
             /\ {"ChangeDutyCycle", "cleanup"} \subseteq hist'.attempted]_vars

(***************************************************************************)
(* C14.  When the primary probe fails after the chip handle was opened,    *)
(* the handle is closed before the fallback is tried: in no state is the   *)
(* primary driver marked failed while an opened chip handle is unreleased. *)
(***************************************************************************)
C14_FailedProbeReleasesHandle ==
    (variant = "lock" /\ ~HAS_LGPIO) => lgHandle # "open"

\* a probe that fails at gpiochip_open itself leaves no handle behind, and
\* an unreleased handle of a failed primary driver is always the one whose
\* confirmation call raised (holds)
C14_LeakOnlyAfterConfirmationFailure ==
    (variant = "lock" /\ ~HAS_LGPIO /\ lgHandle = "open") => (hist.leaked /\ chip = "None")

(***************************************************************************)
(* C15.  On a physical driver, the duty a set_brightness response carries  *)
(* is the percent the request handed to the driver, for every value in     *)
(* 0..255.                                                                 *)
(***************************************************************************)
\* thread t makes its driver call in this step
AppliesPwm(t) ==
    /\ req[t].op = "set_brightness" /\ req[t].pc = "apply_pwm"
    /\ req'[t].pc = "lock_wait"

C15_ResponseDutyIsPassed ==
    [][\A t \in DOMAIN req :
          (variant = "lock" /\ AppliesPwm(t) /\ ActiveDriver \in {"primary", "fallback"})
          => passed' = {req'[t].duty}]_vars

\* C15 on the fallback driver, which is handed the percent as computed (holds)
C15_FallbackResponseDutyIsPassed ==
    [][\A t \in DOMAIN req :
          (variant = "lock" /\ AppliesPwm(t) /\ ActiveDriver = "fallback")
          => passed' = {req'[t].duty}]_vars

\* the primary driver is handed int(percent): the response carries what was
\* passed only for the values whose percent is a whole number (holds)
C15_PrimaryPassesWholePercent ==
    [][\A t \in DOMAIN req :
          (variant = "lock" /\ AppliesPwm(t) /\ ActiveDriver = "primary")
          => /\ passed' = {IntPercent(req'[t].duty)}
             /\ (passed' = {req'[t].duty}) <=> (req'[t].value % 51 = 0)]_vars

(***************************************************************************)
(* C16.  Shutdown drives the output to 0 before it releases the driver     *)
(* handle, set_brightness requests in flight or not: once the handle is    *)
(* released (the chip closed, the PWM object stopped) the duty last        *)
(* applied to the hardware is 0, then and ever after.  Stated for release  *)
(* calls that do not fail.                                                 *)
(***************************************************************************)
C16_ZeroBeforeRelease ==
    (variant = "lock" /\ ~hist.cleanupFault /\ (lgHandle = "closed" \/ swPwm = "stopped"))
        => hwDuty = 0

\* C16 when no request overlaps the shutdown (holds)
C16_QuiescentZeroBeforeRelease ==
    (variant = "lock" /\ ~hist.cleanupFault /\ ~hist.overlap
       /\ (lgHandle = "closed" \/ swPwm = "stopped"))
        => hwDuty = 0

\* C16 on the fallback driver, requests in flight or not (holds)
C16_FallbackZeroBeforeRelease ==
    (variant = "lock" /\ ~hist.cleanupFault /\ swPwm = "stopped") => hwDuty = 0

(***************************************************************************)
(* C17.  With concurrent set_brightness requests and no hardware failure,  *)
(* whenever no request is in flight the duty last applied to the hardware  *)
(* is the mapping of the stored brightness.                                *)
(***************************************************************************)
\* the duty the active driver is driven at for a stored brightness
HardwareDuty(value) ==
    IF ActiveDriver = "primary" THEN IntPercent(DutyPercent(value)) ELSE DutyPercent(value)

C17_HardwareMatchesStored ==
    (variant = "lock" /\ AllIdle /\ ActiveDriver # "dry-run")
        => hwDuty = HardwareDuty(_state.brightness)

\* with one client at a time (SpecDuty) the same statement holds
C17_SequentialHardwareMatchesStored ==
    (variant = "lock" /\ Cardinality(DOMAIN req) = 1 /\ AllIdle
       /\ ActiveDriver # "dry-run")
        => hwDuty = HardwareDuty(_state.brightness)

(***************************************************************************)
(* C18.  The log is append-only as readers see it: a get-messages that     *)
(* ends after messages were accepted returns all of them (the last 200 of  *)
(* them), in the order they were accepted, also when another add-message   *)
(* is running.  Stated for runs in which no write of the file failed.      *)
(***************************************************************************)
TextsOf(msgs) == [i \in DOMAIN msgs |-> msgs[i].text]

\* s is t with some elements left out
RECURSIVE IsSubseq(_, _)
IsSubseq(s, t) ==
    IF s = <<>> THEN TRUE
    ELSE IF t = <<>> THEN FALSE
    ELSE IF Head(s) = Head(t) THEN IsSubseq(Tail(s), Tail(t))
    ELSE IsSubseq(s, Tail(t))

C18_AppendOnlyReads ==
    [][\A t \in DOMAIN req :
          (Completes(t) /\ req'[t].op = "get_messages" /\ ~hist.writeFault)
          => IsSubseq(SpecSuffix(hist.accepted, 200), TextsOf(req'[t].messages))]_vars

\* the lock variant returns exactly the last 200 accepted messages in the
\* order of their acceptance, whatever runs beside the read (holds)
C18_LockVariantReadsAccepted ==
    [][\A t \in DOMAIN req :
          (variant = "lock" /\ Completes(t) /\ req'[t].op = "get_messages")
          => TextsOf(req'[t].messages) = SpecSuffix(hist.accepted, 200)]_vars

====
